---------------------------- MODULE Spec2Model ----------------------------
(***************************************************************************)
(* The halo-catalog frontend of yt                                         *)
(* (src/yt/frontends/halo_catalog/data_structures.py) as a state machine.  *)
(*                                                                         *)
(* Three specifications share the variables:                               *)
(*   Spec     the dataset: _is_valid, _parse_parameter_file and            *)
(*            _setup_filenames over a disk of named files;                 *)
(*   SpecPos  one chunk with well-formed position datasets: the numerics   *)
(*            of _get_particle_positions;                                  *)
(*   SpecIO   one chunk whose datasets or attributes may be missing or of  *)
(*            the wrong length: the file handles of                        *)
(*            _read_particle_positions.                                    *)
(*                                                                         *)
(* Positions are float64 in the source (line 85).  They are modelled as a  *)
(* binary floating-point format with a FloatBits-bit significand and       *)
(* round-to-nearest-even, a value being an integer number of the format's  *)
(* smallest step.  File names are sequences of one-character strings.      *)
(***************************************************************************)
EXTENDS Integers, Sequences, FiniteSets

VARIABLES
    \* ---- the dataset (Spec) ----
    disk,               \* file name -> content, the files that exist
    parameter_filename, \* the filename the dataset was given
    prefix,             \* local of _parse_parameter_file, kept for inspection
    filename_template,  \* ds.filename_template
    file_count,         \* ds.file_count
    data_files,         \* index.data_files
    index_particles,    \* index.total_particles
    phase,              \* where the dataset is in its life
    valid,              \* outcome of the _is_valid call
    \* ---- one chunk (SpecPos, SpecIO) ----
    h5file,             \* the chunk's file: attribute num_halos, three datasets
    built,              \* HaloCatalogHDF5File.__init__ has run
    header,             \* self.header
    total_particles,    \* self.total_particles["halos"]
    start,              \* self.start
    end,                \* self.end
    dle,                \* ds.domain_left_edge, per axis
    dw,                 \* ds.domain_width, per axis
    handles,            \* every h5py.File opened so far: who opened it, is it open
    ret,                \* outcome of the last position call
    nreads              \* invocations of _read_particle_positions so far

dsvars == <<disk, parameter_filename, prefix, filename_template, file_count,
            data_files, index_particles, phase, valid>>
chunkvars == <<h5file, built, header, total_particles, start, end, dle, dw,
               handles, ret, nreads>>
vars == <<dsvars, chunkvars>>

\* Python's None, where the source tests for it, and a key an HDF5 file does
\* not hold; each is a value of the type it stands in for.
NoHandle == 0           \* f is None; handles are numbered from 1
NoBound == -1           \* self.start or self.end is None; row indexes are >= 0
Missing == -1           \* no attribute num_halos; counts are >= 0

----------------------------------------------------------------------------
(* Bounds of the model.                                                    *)
FloatBits == 3          \* significand bits of the modelled float format
MaxRows == 2            \* halos stored in one chunk file
MaxHandles == 3         \* h5py.File objects opened in one run
MaxReads == 2           \* invocations of the raw position reader in one run

----------------------------------------------------------------------------
(* float64 arithmetic, scaled down to FloatBits bits.                      *)

RECURSIVE Pow2(_)
Pow2(n) == IF n = 0 THEN 1 ELSE 2 * Pow2(n - 1)

Abs(x) == IF x < 0 THEN -x ELSE x

\* The spacing of the floats around magnitude a: 1 up to 2^FloatBits, then
\* doubling with every binade.
RECURSIVE Quantum(_, _)
Quantum(a, q) == IF a < Pow2(FloatBits) * q THEN q ELSE Quantum(a, 2 * q)

RoundMag(a) ==
    LET q  == Quantum(a, 1)
        lo == (a \div q) * q
        r  == a - lo
    IN  IF 2 * r < q THEN lo
        ELSE IF 2 * r > q THEN lo + q
        ELSE IF (lo \div q) % 2 = 0 THEN lo ELSE lo + q

\* The float nearest to the exact value x, ties to the even significand.
Round(x) == IF x < 0 THEN -RoundMag(-x) ELSE RoundMag(x)

IsFloat(x) == Round(x) = x

\* C's fmod: exact, with the sign of the dividend.
Fmod(a, b) == IF a < 0 THEN -((-a) % Abs(b)) ELSE a % Abs(b)

\* np.subtract, np.add on float64: the exact result, rounded.
NpSubtract(a, b) == Round(a - b)
NpAdd(a, b) == Round(a + b)

\* np.mod on float64 (numpy's floor remainder): fmod, then the divisor is
\* added, in floating point, when the signs differ.
NpMod(a, b) ==
    LET m == Fmod(a, b)
    IN  IF m # 0 /\ ((b < 0) # (m < 0)) THEN Round(m + b) ELSE m


----------------------------------------------------------------------------
(* File names: str.rsplit, str.join, the % operator, glob.glob.            *)

Suffix == <<".", "h", "5">>                             \* _suffix
Placeholder == <<"%", "(", "n", "u", "m", ")", "s">>    \* %(num)s

DigitChars == <<"0", "1", "2", "3", "4", "5", "6", "7", "8", "9">>

\* str(i) of an integer i >= 0.
RECURSIVE Str(_)
Str(i) == IF i < 10 THEN <<DigitChars[i + 1]>>
          ELSE Str(i \div 10) \o <<DigitChars[(i % 10) + 1]>>

StartsWith(s, t) == Len(s) >= Len(t) /\ SubSeq(s, 1, Len(t)) = t
EndsWith(s, t) == Len(s) >= Len(t) /\ SubSeq(s, Len(s) - Len(t) + 1, Len(s)) = t

Positions(s, c) == {i \in 1..Len(s) : s[i] = c}
Last(S) == CHOOSE i \in S : \A j \in S : j <= i
First(S) == CHOOSE i \in S : \A j \in S : i <= j

\* s.rsplit(".", maxsplit): split at the last maxsplit dots.
RECURSIVE RSplit(_, _)
RSplit(s, maxsplit) ==
    IF maxsplit = 0 \/ Positions(s, ".") = {} THEN <<s>>
    ELSE LET i == Last(Positions(s, "."))
         IN  Append(RSplit(SubSeq(s, 1, i - 1), maxsplit - 1),
                    SubSeq(s, i + 1, Len(s)))

\* s.split(".", maxsplit): split at the first maxsplit dots.
RECURSIVE Split(_, _)
Split(s, maxsplit) ==
    IF maxsplit = 0 \/ Positions(s, ".") = {} THEN <<s>>
    ELSE LET i == First(Positions(s, "."))
         IN  <<SubSeq(s, 1, i - 1)>> \o Split(SubSeq(s, i + 1, Len(s)), maxsplit - 1)

\* parts[:-2]
DropLastTwo(parts) ==
    IF Len(parts) <= 2 THEN <<>> ELSE SubSeq(parts, 1, Len(parts) - 2)

\* ".".join(parts)
RECURSIVE Join(_)
Join(parts) ==
    IF Len(parts) = 0 THEN <<>>
    ELSE IF Len(parts) = 1 THEN parts[1]
    ELSE parts[1] \o <<".">> \o Join(Tail(parts))

MaxSplit == 2

\* The prefix, were the name split at its first dots.
PrefixBySplit(filename) == Join(DropLastTwo(Split(filename, MaxSplit)))

\* ".".join(self.parameter_filename.rsplit(".", 2)[:-2])
PrefixOf(filename) == Join(DropLastTwo(RSplit(filename, MaxSplit)))

\* "%s.%%(num)s%s" % (prefix, self._suffix)
TemplateOf(pre) == pre \o <<".">> \o Placeholder \o Suffix

BadFormat == <<"ValueError">>

\* template % {"num": i}: %(num)s becomes str(i), %% becomes %, any other
\* use of % is not a text this model follows.
RECURSIVE Format(_, _)
Format(template, i) ==
    IF template = <<>> THEN <<>>
    ELSE IF Head(template) # "%"
    THEN LET rest == Format(Tail(template), i)
         IN  IF rest = BadFormat THEN BadFormat ELSE <<Head(template)>> \o rest
    ELSE IF StartsWith(template, Placeholder)
    THEN LET rest == Format(SubSeq(template, Len(Placeholder) + 1, Len(template)), i)
         IN  IF rest = BadFormat THEN BadFormat ELSE Str(i) \o rest
    ELSE IF StartsWith(template, <<"%", "%">>)
    THEN LET rest == Format(SubSeq(template, 3, Len(template)), i)
         IN  IF rest = BadFormat THEN BadFormat ELSE <<"%">> \o rest
    ELSE BadFormat

\* name is among glob.glob(pre + "*" + suffix): it starts with pre and ends
\* with the suffix, the part the star stands for holds no "/", and a star at
\* the start of the last path component matches no hidden file.
GlobMatch(pre, name) ==
    /\ Len(name) >= Len(pre) + Len(Suffix)
    /\ StartsWith(name, pre)
    /\ EndsWith(name, Suffix)
    /\ \A k \in (Len(pre) + 1)..Len(name) : name[k] # "/"
    /\ (pre = <<>> \/ pre[Len(pre)] = "/") => name[Len(pre) + 1] # "."

Glob(pre) == {name \in DOMAIN disk : GlobMatch(pre, name)}

----------------------------------------------------------------------------
(* The dataset: HaloCatalogDataset and HaloCatalogParticleIndex.           *)

MaxFiles == 3           \* files on the disk
HalosPerFile == 2       \* num_halos of a catalog file

\* The paths of the model, relative to the working directory.
ChunkName(pre, i) == pre \o <<".">> \o Str(i) \o Suffix

Names ==
    { ChunkName(<<"r">>, i) : i \in 0..MaxFiles } \cup
    { ChunkName(<<"a", ".", "b">>, 0),
      <<"c">> \o Suffix,
      <<"d", "/", "c">> \o Suffix,
      <<"r", ".", "t", "x", "t">> }

\* What a file may hold: a halo catalog, an HDF5 file of another data_type,
\* an HDF5 file with no data_type, or no HDF5 at all.
Contents ==
    { [hdf5 |-> TRUE,  data_type |-> "halo_catalog", num_halos |-> HalosPerFile],
      [hdf5 |-> TRUE,  data_type |-> "other",        num_halos |-> Missing],
      [hdf5 |-> TRUE,  data_type |-> "absent",       num_halos |-> Missing],
      [hdf5 |-> FALSE, data_type |-> "absent",       num_halos |-> Missing] }

\* h5py.File(path, mode="r") succeeds.
Opens(path) == path \in DOMAIN disk /\ disk[path].hdf5

NotChecked == [path |-> <<>>, result |-> "none", opens |-> 0, closes |-> 0]

\* A check that lets every path through to the open.
HasAnySuffix(path) == TRUE

\* args[0].endswith(".h5")
HasSuffix(path) == EndsWith(path, Suffix)

\* "data_type" in f.attrs and parse_h5_attr(f, "data_type") == "halo_catalog"
IsHaloCatalog(attrs) ==
    attrs.data_type # "absent" /\ attrs.data_type = "halo_catalog"

\* HaloCatalogDataset._is_valid(path)
IsValid(path) ==
    /\ phase = "idle"
    /\ valid = NotChecked
    /\ valid' =
         IF ~HasSuffix(path)
         THEN [path |-> path, result |-> "False", opens |-> 0, closes |-> 0]
         ELSE IF ~Opens(path)
         THEN [path |-> path, result |-> "raise", opens |-> 0, closes |-> 0]
         ELSE [path |-> path,
               result |-> IF IsHaloCatalog(disk[path]) THEN "True" ELSE "False",
               opens |-> 1, closes |-> 1]
    /\ UNCHANGED <<disk, parameter_filename, prefix, filename_template, file_count,
                   data_files, index_particles, phase>>
    /\ UNCHANGED chunkvars

\* SavedDataset._parse_parameter_file reads the file's attributes.
SavedDatasetParses(filename) == Opens(filename)

\* HaloCatalogDataset._parse_parameter_file, the dataset made from filename
\* directly or after _is_valid accepted it.
ParseParameterFile(filename) ==
    /\ phase = "idle"
    /\ valid = NotChecked \/ (valid.result = "True" /\ valid.path = filename)
    /\ parameter_filename' = filename
    /\ prefix' = PrefixOf(filename)
    /\ filename_template' = TemplateOf(PrefixOf(filename))
    /\ file_count' = Cardinality(Glob(PrefixOf(filename)))
    /\ phase' = IF SavedDatasetParses(filename) THEN "parsed" ELSE "failed"
    /\ UNCHANGED <<disk, data_files, index_particles, valid>>
    /\ UNCHANGED chunkvars

\* range(1, ndoms + 1)
ChunkIdsFromOne(ndoms) == [k \in 1..ndoms |-> k]

\* range(ndoms)
ChunkIds(ndoms) == [k \in 1..ndoms |-> k - 1]

\* template % {"num": i + 1}
ChunkPathFromOne(i) == Format(filename_template, i + 1)

\* template % {"num": i}
ChunkPath(i) == Format(filename_template, i)

\* The (filename, file_id, range) each chunk is constructed with.
ChunkArgs ==
    IF file_count > 1
    THEN [k \in 1..file_count |->
            [filename |-> ChunkPath(ChunkIds(file_count)[k]),
             file_id |-> ChunkIds(file_count)[k],
             start |-> NoBound, end |-> NoBound]]
    ELSE << [filename |-> parameter_filename, file_id |-> 0,
             start |-> NoBound, end |-> NoBound] >>

\* HaloCatalogHDF5File.__init__ reads the header: the file opens.
ReadsHeader(args) == Opens(args.filename)

\* ParticleFile.__init__ counts the chunk's particles, from num_halos of the
\* header.
CountsParticles(args) == disk[args.filename].num_halos # Missing

ChunkCount(args) == disk[args.filename].num_halos

\* The chunk constructor succeeds.
Constructs(args) == ReadsHeader(args) /\ CountsParticles(args)

RECURSIVE SumCounts(_)
SumCounts(files) ==
    IF files = <<>> THEN 0 ELSE Head(files).total_particles + SumCounts(Tail(files))

\* HaloCatalogParticleIndex._setup_filenames
SetupFilenames ==
    /\ phase = "parsed"
    /\ IF \A k \in 1..Len(ChunkArgs) : Constructs(ChunkArgs[k])
       THEN LET files == [k \in 1..Len(ChunkArgs) |->
                            [filename |-> ChunkArgs[k].filename,
                             file_id |-> ChunkArgs[k].file_id,
                             start |-> ChunkArgs[k].start,
                             end |-> ChunkArgs[k].end,
                             total_particles |-> ChunkCount(ChunkArgs[k])]]
            IN  /\ data_files' = files
                /\ index_particles' = SumCounts(files)
                /\ phase' = "indexed"
       ELSE /\ phase' = "failed"
            /\ UNCHANGED <<data_files, index_particles>>
    /\ UNCHANGED <<disk, parameter_filename, prefix, filename_template, file_count, valid>>
    /\ UNCHANGED chunkvars

----------------------------------------------------------------------------
(* One chunk: HaloCatalogFile and HaloCatalogHDF5File.                     *)

Axes == <<"x", "y", "z">>

Min(a, b) == IF a < b THEN a ELSE b

\* The periodic domains a chunk is read under: left edge and width per axis.
Domains ==
    { [dle |-> <<0, 0, 0>>,  dw |-> <<16, 16, 16>>],
      [dle |-> <<-8, 0, 2>>, dw |-> <<16, 8, 12>>],
      [dle |-> <<2, -8, 0>>, dw |-> <<12, 16, 8>>] }

\* The rows a chunk file may store: inside the domain, on its edges, below
\* and above it by less and by more than a width.
RawRows ==
    { <<0, 0, 0>>, <<-1, 5, 1>>, <<5, -20, 16>>, <<40, -1, -7>>, <<-16, 14, 3>> }

\* What is stored as float64 is a float: the rows and domains of the float
\* format, the domains of positive width.
FloatRows(rows) == {row \in rows : \A a \in 1..3 : IsFloat(row[a])}

FloatDomains(domains) ==
    {d \in domains : \A a \in 1..3 :
        IsFloat(d.dle[a]) /\ IsFloat(d.dw[a]) /\ d.dw[a] > 0}

RECURSIVE SeqsUpTo(_, _)
SeqsUpTo(S, n) ==
    IF n = 0 THEN {<<>>}
    ELSE LET shorter == SeqsUpTo(S, n - 1)
         IN  shorter \cup {Append(q, e) : q \in shorter, e \in S}

\* A well-formed chunk file: num_halos rows, stored as three datasets.
Dataset(data) == [present |-> TRUE, data |-> data]
NoDataset == [present |-> FALSE, data |-> <<>>]

FileOfRows(rows) ==
    [num_halos |-> Len(rows),
     x |-> Dataset([r \in 1..Len(rows) |-> rows[r][1]]),
     y |-> Dataset([r \in 1..Len(rows) |-> rows[r][2]]),
     z |-> Dataset([r \in 1..Len(rows) |-> rows[r][3]])]

\* The chunk's count of halos, kept by the base class: none, or some.
Counts == {0, MaxRows}

\* A sub-range bound of a chunk: None, or a row index.
RangeEnds == {NoBound} \cup (0..MaxRows)

\* self.start, self.end are both set: `None not in (si, ei)`.
HasRange(si, ei) == si # NoBound /\ ei # NoBound

\* pos[si:ei] on the rows of an array, si and ei not negative.
SliceRows(rows, si, ei) ==
    LET lo == Min(si, Len(rows))
        hi == Min(ei, Len(rows))
    IN  IF hi <= lo THEN <<>> ELSE SubSeq(rows, lo + 1, hi)

\* Lines 58-60 on one coordinate of axis a.
Correct(v, a) == NpAdd(NpMod(NpSubtract(v, dle[a]), dw[a]), dle[a])

CorrectRows(rows) ==
    [r \in 1..Len(rows) |-> [a \in 1..3 |-> Correct(rows[r][a], a)]]

\* A reader that closes the handle it holds, its own or not.
CloseAlways(f) == TRUE

\* `close`: the reader closes the handle it opened itself, and no other.
Close(f) == f = NoHandle

\* `pos[:, i] = f[name][()]` fails: the dataset is missing (KeyError) or its
\* length neither is the array's nor broadcasts to it (ValueError).
AssignFails(n, col) ==
    ~col.present \/ (Len(col.data) # n /\ Len(col.data) # 1)

AssignedValue(n, col, r) == IF Len(col.data) = n THEN col.data[r] ELSE col.data[1]

\* _read_particle_positions(ptype, f): what it raises or returns, and the
\* handles it leaves.  `own` is the handle it opened, 0 when it was given one.
ReadOutcome(f) ==
    LET opens == f = NoHandle
        hs1   == IF opens THEN Append(handles, [owner |-> "adapter", open |-> TRUE])
                 ELSE handles
        own   == IF opens THEN Len(hs1) ELSE 0
        n     == header.num_halos
        fails == \/ n = Missing
                 \/ \E i \in 1..3 : AssignFails(n, h5file[Axes[i]])
        pos   == [r \in 1..n |-> [i \in 1..3 |-> AssignedValue(n, h5file[Axes[i]], r)]]
        hs2   == IF Close(f) /\ own # 0
                 THEN [hs1 EXCEPT ![own].open = FALSE]
                 ELSE IF Close(f) /\ ~opens
                 THEN [hs1 EXCEPT ![f].open = FALSE]
                 ELSE hs1
    IN  IF fails
        THEN [raised |-> TRUE, pos |-> <<>>, hs |-> hs1, own |-> own]
        ELSE [raised |-> FALSE, pos |-> pos, hs |-> hs2, own |-> own]

\* When the reader raises, nothing closes the handle it opened: it stays
\* open until Python finalises the h5py.File object, which no step of the
\* adapter does.

Idle == [op |-> "none", kind |-> "idle", value |-> <<>>, raw |-> <<>>,
         f |-> NoHandle, own |-> 0, reader |-> FALSE]

\* HaloCatalogHDF5File.__init__: the header is read inside a `with` block,
\* which closes the handle however the block ends.  The base constructor
\* keeps the range and counts the particles; both are set in the initial
\* state.
Construct ==
    /\ ~built
    /\ Len(handles) < MaxHandles
    /\ header' = [num_halos |-> h5file.num_halos]
    /\ handles' = Append(handles, [owner |-> "adapter", open |-> FALSE])
    /\ built' = TRUE
    /\ UNCHANGED <<h5file, total_particles, start, end, dle, dw, ret, nreads>>
    /\ UNCHANGED dsvars

\* The caller opens the chunk's file to share the handle between reads.
CallerOpen ==
    /\ built
    /\ Len(handles) < MaxHandles
    /\ handles' = Append(handles, [owner |-> "caller", open |-> TRUE])
    /\ UNCHANGED <<h5file, built, header, total_particles, start, end, dle, dw,
                   ret, nreads>>
    /\ UNCHANGED dsvars

CallerClose(h) ==
    /\ h \in 1..Len(handles)
    /\ handles[h].owner = "caller"
    /\ handles[h].open
    /\ handles' = [handles EXCEPT ![h].open = FALSE]
    /\ UNCHANGED <<h5file, built, header, total_particles, start, end, dle, dw,
                   ret, nreads>>
    /\ UNCHANGED dsvars

\* The handles a caller may pass: None, or one of its own open handles.
Passable ==
    {NoHandle} \cup {h \in 1..Len(handles) : handles[h].owner = "caller" /\ handles[h].open}

CanCall(f) ==
    /\ built
    /\ f \in Passable
    /\ nreads < MaxReads
    /\ f = NoHandle => Len(handles) < MaxHandles

\* A direct call of _read_particle_positions.
ReadParticlePositions(f) ==
    /\ CanCall(f)
    /\ LET o == ReadOutcome(f)
       IN  /\ handles' = o.hs
           /\ ret' = [op |-> "read",
                      kind |-> IF o.raised THEN "raise" ELSE "array",
                      value |-> o.pos, raw |-> o.pos,
                      f |-> f, own |-> o.own, reader |-> TRUE]
    /\ nreads' = nreads + 1
    /\ UNCHANGED <<h5file, built, header, total_particles, start, end, dle, dw>>
    /\ UNCHANGED dsvars

\* A position accessor with no early return.
NeverEmpty(pcount) == FALSE

\* `if pcount == 0: return None`
IsEmptyChunk(pcount) == pcount = 0

\* _get_particle_positions(ptype, f).
GetParticlePositions(f) ==
    /\ CanCall(f)
    /\ IF IsEmptyChunk(total_particles)
       THEN /\ ret' = [op |-> "get", kind |-> "None", value |-> <<>>, raw |-> <<>>,
                       f |-> f, own |-> 0, reader |-> FALSE]
            /\ UNCHANGED <<handles, nreads>>
       ELSE LET o   == ReadOutcome(f)
                sel == IF HasRange(start, end)
                       THEN SliceRows(o.pos, start, end) ELSE o.pos
            IN  /\ handles' = o.hs
                /\ nreads' = nreads + 1
                /\ ret' = [op |-> "get",
                           kind |-> IF o.raised THEN "raise" ELSE "array",
                           value |-> IF o.raised THEN <<>> ELSE CorrectRows(sel),
                           raw |-> IF o.raised THEN <<>> ELSE sel,
                           f |-> f, own |-> o.own, reader |-> TRUE]
    /\ UNCHANGED <<h5file, built, header, total_particles, start, end, dle, dw>>
    /\ UNCHANGED dsvars

----------------------------------------------------------------------------
(* The chunk specifications.                                               *)

\* The dataset is not under study in SpecPos and SpecIO.
DatasetIdle ==
    /\ disk = <<>>
    /\ parameter_filename = <<>>
    /\ prefix = <<>>
    /\ filename_template = <<>>
    /\ file_count = 0
    /\ data_files = <<>>
    /\ index_particles = 0
    /\ phase = "idle"
    /\ valid = NotChecked

ChunkUnbuilt ==
    /\ built = FALSE
    /\ header = [num_halos |-> Missing]
    /\ handles = <<>>
    /\ ret = Idle
    /\ nreads = 0

\* A well-formed chunk file under every domain and sub-range.
InitPos ==
    /\ DatasetIdle
    /\ ChunkUnbuilt
    /\ \E rows \in SeqsUpTo(FloatRows(RawRows), MaxRows) : h5file = FileOfRows(rows)
    /\ \E d \in FloatDomains(Domains) : dle = d.dle /\ dw = d.dw
    /\ start \in RangeEnds
    /\ end \in RangeEnds
    /\ total_particles \in Counts

\* The datasets a chunk file may hold in place of a well-formed one: none,
\* an empty one, one of a single value (which broadcasts), a full one.
Shapes == {NoDataset} \cup {Dataset([r \in 1..n |-> 0]) : n \in {0, 1, MaxRows}}

\* A chunk file that may lack num_halos or a dataset, or hold datasets of
\* other lengths than num_halos.
InitIO ==
    /\ DatasetIdle
    /\ ChunkUnbuilt
    /\ h5file \in [num_halos : {Missing} \cup (0..MaxRows),
                   x : Shapes, y : Shapes, z : Shapes]
    /\ dle = <<0, 0, 0>>
    /\ dw = <<16, 16, 16>>
    /\ start = NoBound
    /\ end = NoBound
    /\ total_particles \in Counts

NextChunk ==
    \/ Construct
    \/ CallerOpen
    \/ \E h \in 1..MaxHandles : CallerClose(h)
    \/ \E f \in 0..MaxHandles : ReadParticlePositions(f)
    \/ \E f \in 0..MaxHandles : GetParticlePositions(f)

SpecPos == InitPos /\ [][NextChunk]_vars

SpecIO == InitIO /\ [][NextChunk]_vars

----------------------------------------------------------------------------
(* The dataset specification.                                              *)

\* The chunk is not under study in Spec.
ChunkIdle ==
    /\ ChunkUnbuilt
    /\ h5file = [num_halos |-> Missing, x |-> NoDataset, y |-> NoDataset, z |-> NoDataset]
    /\ dle = <<0, 0, 0>>
    /\ dw = <<16, 16, 16>>
    /\ start = NoBound
    /\ end = NoBound
    /\ total_particles = 0

\* Every disk of at most MaxFiles files.
Init ==
    /\ ChunkIdle
    /\ \E S \in SUBSET Names :
         /\ Cardinality(S) <= MaxFiles
         /\ disk \in [S -> Contents]
    /\ parameter_filename = <<>>
    /\ prefix = <<>>
    /\ filename_template = <<>>
    /\ file_count = 0
    /\ data_files = <<>>
    /\ index_particles = 0
    /\ phase = "idle"
    /\ valid = NotChecked

Next ==
    \/ \E path \in Names : IsValid(path)
    \/ \E filename \in Names : ParseParameterFile(filename)
    \/ SetupFilenames

Spec == Init /\ [][Next]_vars

----------------------------------------------------------------------------
(* The claims.                                                             *)

Returned == ret.op = "get" /\ ret.kind = "array"

InDomain(v, a) == dle[a] <= v /\ v < dle[a] + dw[a]

\* C1: every coordinate of every row returned by _get_particle_positions
\* lies in [domain_left_edge, domain_left_edge + domain_width) on its axis,
\* whatever the stored coordinate and whether or not a sub-range is set.
C1_PositionsInDomain ==
    Returned =>
        \A r \in 1..Len(ret.value) : \A a \in 1..3 : InDomain(ret.value[r][a], a)

\* C2: a step of _read_particle_positions, called directly or through
\* _get_particle_positions, leaves every handle of the caller as it was, so
\* the handle passed in is still open; a handle the reader opened itself is
\* closed when the reader returns its array.
C2_CallerOwnsHandle ==
    [][\A f \in 0..MaxHandles :
          (ReadParticlePositions(f) \/ GetParticlePositions(f)) =>
              /\ \A h \in 1..Len(handles) :
                    handles[h].owner = "caller" => handles'[h] = handles[h]
              /\ f # NoHandle => handles'[f].open
              /\ (f = NoHandle /\ ret'.kind = "array") =>
                    /\ ret'.own = Len(handles')
                    /\ handles'[ret'.own].owner = "adapter"
                    /\ ~handles'[ret'.own].open]_vars

\* The reader returned an array read through a handle of the caller, which
\* is still open.
C2_Witness ==
    /\ ret.op = "read"
    /\ ret.kind = "array"
    /\ ret.f # NoHandle
    /\ handles[ret.f].owner = "caller"
    /\ handles[ret.f].open

FormsOf(name) ==
    {<<k, i>> \in (0..Len(name)) \X (0..9) : name = ChunkName(SubSeq(name, 1, k), i)}

Parsed == phase \in {"parsed", "indexed"}

Unranged(chunk) == chunk.start = NoBound /\ chunk.end = NoBound

\* The disk holds one file, a halo catalog named with the suffix, and the
\* dataset was made from its name.
SingleChunkCatalog ==
    /\ DOMAIN disk = {parameter_filename}
    /\ EndsWith(parameter_filename, Suffix)
    /\ disk[parameter_filename].hdf5
    /\ disk[parameter_filename].data_type = "halo_catalog"

\* C3: for a single-chunk catalog, one catalog file on the disk opened by its
\* name, file_count is 1, and the index holds exactly one chunk: id 0, no
\* sub-range, the given filename as its path.
C3_SingleChunk ==
    (Parsed /\ SingleChunkCatalog) =>
        /\ file_count = 1
        /\ phase = "indexed" =>
              /\ Len(data_files) = 1
              /\ data_files[1].file_id = 0
              /\ data_files[1].filename = parameter_filename
              /\ Unranged(data_files[1])

\* C4: when N > 1 files on the disk match prefix + "*" + suffix, file_count is
\* N, and the index built holds N chunks, chunk k (counted from 0) with id k,
\* the template with k substituted as its path, and no sub-range.
C4_MultiChunk ==
    LET N == Cardinality(Glob(PrefixOf(parameter_filename)))
    IN  (Parsed /\ N > 1) =>
            /\ file_count = N
            /\ phase = "indexed" =>
                  /\ Len(data_files) = N
                  /\ \A k \in 1..N :
                        /\ data_files[k].file_id = k - 1
                        /\ data_files[k].filename =
                              Format(TemplateOf(PrefixOf(parameter_filename)), k - 1)
                        /\ data_files[k].filename \in DOMAIN disk
                        /\ Unranged(data_files[k])

\* An index of three chunks has been built.
C4_Witness ==
    /\ phase = "indexed"
    /\ Cardinality(Glob(PrefixOf(parameter_filename))) = 3
    /\ Len(data_files) = 3

MatchesTemplate(chunk) == chunk.filename = Format(filename_template, chunk.file_id)

\* C5 as stated: after index setup every chunk's filename is the dataset's
\* filename_template with the chunk's id substituted, for single-chunk and
\* multi-chunk catalogs alike.
C5_AllChunksMatchTemplate ==
    phase = "indexed" => \A k \in 1..Len(data_files) : MatchesTemplate(data_files[k])

\* C5 as amended: after index setup every chunk of a catalog with
\* file_count > 1 has the filename_template with its id substituted as its
\* filename; the one chunk of a catalog with file_count <= 1 has the given
\* filename, which is the template with 0 substituted only when the dataset
\* was given <prefix>.0.h5.
C5_MultiChunksMatchTemplate ==
    phase = "indexed" =>
        /\ file_count > 1 =>
              \A k \in 1..Len(data_files) : MatchesTemplate(data_files[k])
        /\ file_count <= 1 =>
              /\ \A k \in 1..Len(data_files) :
                    data_files[k].filename = parameter_filename
              /\ \A k \in 1..Len(data_files) :
                    MatchesTemplate(data_files[k]) <=>
                        parameter_filename = ChunkName(PrefixOf(parameter_filename), 0)

\* A two-chunk index whose chunks carry the template's names.
C5_Witness ==
    /\ phase = "indexed"
    /\ file_count = 2
    /\ Len(data_files) = 2
    /\ \A k \in 1..2 : MatchesTemplate(data_files[k])

\* C6: _is_valid returns False for a path without the suffix, without opening
\* it, whether or not it exists; it returns False for an HDF5 file with the
\* suffix whose data_type is absent or another; it returns True only for a
\* file with the suffix whose data_type is "halo_catalog".
C6_IsValid ==
    valid.result # "none" =>
        /\ ~EndsWith(valid.path, Suffix) =>
              valid.result = "False" /\ valid.opens = 0
        /\ ( /\ EndsWith(valid.path, Suffix)
             /\ valid.path \in DOMAIN disk
             /\ disk[valid.path].hdf5
             /\ disk[valid.path].data_type # "halo_catalog" ) =>
              valid.result = "False"
        /\ valid.result = "True" =>
              /\ EndsWith(valid.path, Suffix)
              /\ valid.path \in DOMAIN disk
              /\ disk[valid.path].data_type = "halo_catalog"

\* _is_valid has rejected a path without the suffix that is no file.
C6_Witness ==
    /\ valid.result = "False"
    /\ ~EndsWith(valid.path, Suffix)
    /\ valid.path \notin DOMAIN disk
    /\ valid.opens = 0

\* C7: _get_particle_positions returns None, and does not invoke the raw
\* reader, exactly when the chunk's count is zero; with a nonzero count it
\* invokes the reader and, unless the read raises, returns an array.
C7_ZeroCountIsNone ==
    ret.op = "get" =>
        /\ total_particles = 0 => (ret.kind = "None" /\ ~ret.reader)
        /\ total_particles # 0 => (ret.kind \in {"array", "raise"} /\ ret.reader)

\* A chunk with a count of zero, whose file does hold rows, returned None
\* with no read made.
C7_Witness ==
    /\ ret.op = "get"
    /\ total_particles = 0
    /\ header.num_halos > 0
    /\ ret.kind = "None"
    /\ nreads = 0

\* C8: the coordinate returned differs from the stored one by a whole number
\* of domain widths; a stored coordinate inside the domain comes back as it
\* is; correcting a returned coordinate again changes nothing.
C8_WrapAround ==
    Returned =>
        \A r \in 1..Len(ret.value) : \A a \in 1..3 :
            /\ (ret.value[r][a] - ret.raw[r][a]) % dw[a] = 0
            /\ InDomain(ret.raw[r][a], a) => ret.value[r][a] = ret.raw[r][a]
            /\ Correct(ret.value[r][a], a) = ret.value[r][a]

\* C9: for a given filename <prefix>.<id>.h5 the prefix derived is <prefix>
\* and the template is <prefix>.%(num)s.h5, and the template with the id
\* substituted is the given filename.
C9_TemplateDerivation ==
    phase # "idle" =>
        \A form \in FormsOf(parameter_filename) :
            LET pre == SubSeq(parameter_filename, 1, form[1])
            IN  /\ prefix = pre
                /\ filename_template = pre \o <<".">> \o Placeholder \o Suffix
                /\ Format(filename_template, form[2]) = parameter_filename

\* The dataset was given a.b.0.h5, whose prefix holds a dot.
C9_Witness ==
    /\ phase # "idle"
    /\ parameter_filename = ChunkName(<<"a", ".", "b">>, 0)
    /\ FormsOf(parameter_filename) # {}
    /\ prefix = <<"a", ".", "b">>

\* C10: no handle the adapter opened itself is open once the operation that
\* opened it has ended, by returning or by raising.
C10_NoAdapterHandleLeftOpen ==
    \A h \in 1..Len(handles) : handles[h].owner = "adapter" => ~handles[h].open

============================================================================
